---- MODULE Spec2Model ----
(***************************************************************************)
(* Model of the document-ingestion and context-retrieval pipeline of       *)
(* core/corememory_system.py (chunk_text, ingest_document) together with   *)
(* the embedding provider wrapper of core/llm_interface.py.                *)
(*                                                                         *)
(* Strings are sequences of one-character strings, so that slicing,        *)
(* sanitising and formatting are computed the way the code computes them.  *)
(***************************************************************************)
EXTENDS Integers, Sequences, FiniteSets, TLC

VARIABLES
    collection,     \* module global `collection`: TRUE = handle, FALSE = None
    api_key,        \* openai.api_key configured (llm_interface.py)
    store,          \* contents of the Chroma collection: id -> record
    call,           \* observation of the last ingest_document call
    ncalls,         \* number of calls made so far
    text,           \* chunk_text argument
    chunk_size,     \* chunk_text argument
    chunk_overlap,  \* chunk_text argument
    chunks,         \* chunk_text return value
    iterations,     \* loop bodies executed by the last chunk_text call
    chunk_raised,   \* the last chunk_text call raised
    chunk_pc,       \* "idle" before the first chunk_text call, then "returned"
    client,         \* module global `client`: "persistent", "in_memory" or "none"
    imported,       \* the import of corememory_system finished without an exception
    boot,           \* what the three Chroma calls of the module initialisation did
    clock,          \* the wall clock, in whole seconds
    batch_pc,       \* run_ingestion: "idle", "loop", "done"
    ingested_count, \* run_ingestion local
    failed_count,   \* run_ingestion local
    processed,      \* run_ingestion: the FILE_MAP keys handled so far, in order
    session         \* the chat front end in use and whether it still reads input

vars == <<collection, api_key, store, call, ncalls,
          text, chunk_size, chunk_overlap, chunks, iterations, chunk_raised, chunk_pc,
          client, imported, boot, clock,
          batch_pc, ingested_count, failed_count, processed, session>>

storeVars == <<collection, api_key, store, call, ncalls>>
chunkVars == <<text, chunk_size, chunk_overlap, chunks, iterations, chunk_raised, chunk_pc>>
bootVars == <<client, imported, boot>>
batchVars == <<batch_pc, ingested_count, failed_count, processed>>
chatVars == <<session>>

----------------------------------------------------------------------------
(* Bounds *)

\* calls made in one behaviour
MaxCalls == 2
\* longest file content read by ingest_document
MaxDocLen == 6
\* stand-ins for the default chunk_size=1200 / chunk_overlap=150 of chunk_text
DefaultChunkSize == 3
DefaultChunkOverlap == 1
\* chunk_text inputs
MaxTextLen == 6
MaxChunkSize == 4
MaxChunkOverlap == 3

\* largest n_results asked of retrieve_relevant_chunks
MaxResults == 3

\* longest text typed after "lens:" in run_chat
MaxLensCommandLen == 6

\* number of FILE_MAP entries run_ingestion walks through
FileMapLen == 3

\* chunk[:200] in the metadata preview
PreviewLen == 200

----------------------------------------------------------------------------
(* Python helpers *)

Min(a, b) == IF a < b THEN a ELSE b
Max(a, b) == IF a > b THEN a ELSE b

\* s[a:b] with Python's clamping and negative-index rules
PySlice(s, a, b) ==
    LET n  == Len(s)
        lo == IF a < 0 THEN Max(n + a, 0) ELSE Min(a, n)
        hi == IF b < 0 THEN Max(n + b, 0) ELSE Min(b, n)
    IN  IF lo < hi THEN SubSeq(s, lo + 1, hi) ELSE <<>>

\* characters for which str.isalnum() is true, among those used here
AlnumChars == {"a", "b", "x", "y", "A", "0", "1", "2", "3", "4", "5", "6", "7", "8", "9"}
IsAlnum(c) == c \in AlnumChars

\* str.isspace() characters
WhitespaceChars == {" "}

DigitChar(d) ==
    CASE d = 0 -> "0" [] d = 1 -> "1" [] d = 2 -> "2" [] d = 3 -> "3" [] d = 4 -> "4"
      [] d = 5 -> "5" [] d = 6 -> "6" [] d = 7 -> "7" [] d = 8 -> "8" [] d = 9 -> "9"

\* str(n) / f"{n}" for n >= 0
RECURSIVE Dec(_)
Dec(n) == IF n < 10 THEN <<DigitChar(n)>> ELSE Dec(n \div 10) \o <<DigitChar(n % 10)>>

----------------------------------------------------------------------------
(* chunk_text *)

\* ChunkLoop advancing by chunk_size, forgetting the overlap
RECURSIVE ChunkLoopNoOverlap(_, _, _, _, _)
ChunkLoopNoOverlap(t, size, overlap, start_index, st) ==
    IF ~(start_index < Len(t)) THEN st
    ELSE LET end_index == Min(start_index + size, Len(t))
             st2 == [chunks |-> Append(st.chunks, PySlice(t, start_index, end_index)),
                     iterations |-> st.iterations + 1]
         IN  IF end_index = Len(t) THEN st2
             ELSE IF (size - overlap) <= 0 THEN st2
             ELSE ChunkLoopNoOverlap(t, size, overlap, start_index + size, st2)

\* ChunkLoop without the break at the end of the text
RECURSIVE ChunkLoopNoBreak(_, _, _, _, _)
ChunkLoopNoBreak(t, size, overlap, start_index, st) ==
    IF ~(start_index < Len(t)) THEN st
    ELSE LET end_index == Min(start_index + size, Len(t))
             st2 == [chunks |-> Append(st.chunks, PySlice(t, start_index, end_index)),
                     iterations |-> st.iterations + 1]
         IN  IF (size - overlap) <= 0 THEN st2
             ELSE ChunkLoopNoBreak(t, size, overlap, start_index + (size - overlap), st2)

\* the while loop of chunk_text, from the given start_index; st = [chunks, iterations]
RECURSIVE ChunkLoop(_, _, _, _, _)
ChunkLoop(t, size, overlap, start_index, st) ==
    IF ~(start_index < Len(t)) THEN st
    ELSE LET end_index == Min(start_index + size, Len(t))
             st2 == [chunks |-> Append(st.chunks, PySlice(t, start_index, end_index)),
                     iterations |-> st.iterations + 1]
         IN  IF end_index = Len(t) THEN st2
             ELSE IF (size - overlap) <= 0 THEN st2
             ELSE ChunkLoop(t, size, overlap, start_index + (size - overlap), st2)

\* chunk_text(text, chunk_size, chunk_overlap): [chunks, iterations, raised]
chunk_text(t, size, overlap) ==
    IF t = <<>> THEN [chunks |-> <<>>, iterations |-> 0, raised |-> FALSE]
    ELSE LET st == ChunkLoop(t, size, overlap, 0, [chunks |-> <<>>, iterations |-> 0])
         IN  [chunks |-> st.chunks, iterations |-> st.iterations, raised |-> FALSE]

----------------------------------------------------------------------------
(* Inputs of ingest_document *)

\* file paths, already split as os.path.splitext / os.path.basename split them
NotesTxt  == [dir |-> "data/", stem |-> "notes", ext |-> ".txt"]
PaperDocx == [dir |-> "data/", stem |-> "paper", ext |-> ".DOCX"]
ScanPdf   == [dir |-> "data/", stem |-> "scan",  ext |-> ".pdf"]

\* the (file_path, document_title, content_type) triples ingest_document is
\* called with; titles hold letters, digits and non-alphanumeric characters
Documents ==
    { [file_path |-> NotesTxt,  title |-> <<"a", " ", "b">>, content_type |-> "ReferenceMaterial"],
      [file_path |-> NotesTxt,  title |-> <<"a", " ", "b">>, content_type |-> "UserAnalysis"],
      [file_path |-> PaperDocx, title |-> <<"7", "-">>,      content_type |-> "ReferenceMaterial"],
      [file_path |-> ScanPdf,   title |-> <<"7", "-">>,      content_type |-> "ReferenceMaterial"] }

\* file contents
DocTexts == { [i \in 1..n |-> "x"] : n \in 0..MaxDocLen }

\* what opening and reading the file does
LoadOutcomes == { [kind |-> "FileNotFoundError", text |-> <<>>],
                  [kind |-> "Exception", text |-> <<>>] }
                \cup { [kind |-> "ok", text |-> t] : t \in DocTexts }

\* what openai.embeddings.create does for one chunk
ApiOutcomes == { "ok", "Exception" }

\* str.lower() on the extensions used
Lower(ext) == CASE ext = ".DOCX" -> ".docx" [] ext = ".TXT" -> ".txt"
                [] ext = ".YAML" -> ".yaml" [] OTHER -> ext

None == [is_none |-> TRUE, val |-> <<>>]
Some(v) == [is_none |-> FALSE, val |-> v]

----------------------------------------------------------------------------
(* Document loaders *)

\* load_text_file: every exception is caught and turned into None
load_text_file(load) ==
    IF load.kind = "FileNotFoundError" THEN [ret |-> None, raised |-> FALSE]
    ELSE IF load.kind = "Exception" THEN [ret |-> None, raised |-> FALSE]
    ELSE [ret |-> Some(load.text), raised |-> FALSE]

\* load_docx_file: paragraphs joined by newlines; every exception is caught
load_docx_file(load) ==
    IF load.kind = "FileNotFoundError" THEN [ret |-> None, raised |-> FALSE]
    ELSE IF load.kind = "Exception" THEN [ret |-> None, raised |-> FALSE]
    ELSE [ret |-> Some(load.text), raised |-> FALSE]

----------------------------------------------------------------------------
(* Embedding provider *)

\* the vector the provider returns for a text (opaque, determined by the text)
Vector(t) == <<"embedding", t>>

\* get_openai_embedding: None without an API key or when the API call raises
get_openai_embedding(t, key, api) ==
    IF ~key THEN [ret |-> None, raised |-> FALSE]
    ELSE IF api = "Exception" THEN [ret |-> None, raised |-> FALSE]
    ELSE [ret |-> Some(Vector(t)), raised |-> FALSE]

----------------------------------------------------------------------------
(* Vector store *)

\* collection.add: a failed call raises and writes nothing; a successful call
\* inserts every record whose id is not yet present and leaves existing ids
\* untouched (add is not upsert)
CollectionAdd(st, batch, ok) ==
    IF ~ok THEN [store |-> st, raised |-> TRUE]
    ELSE LET idx(id) == CHOOSE i \in 1..Len(batch.ids) : batch.ids[i] = id
             new == { batch.ids[i] : i \in 1..Len(batch.ids) } \ DOMAIN st
             rec(id) == [embedding |-> batch.embeddings[idx(id)],
                         document  |-> batch.documents[idx(id)],
                         metadata  |-> batch.metadatas[idx(id)]]
         IN  [store |-> [id \in new |-> rec(id)] @@ st, raised |-> FALSE]

\* TryAdd without the try/except: the store's exception propagates
TryAddPropagates(st, batch, ok) ==
    LET r == CollectionAdd(st, batch, ok)
    IN  [store |-> r.store, raised |-> r.raised, written |-> ~r.raised]

\* try: collection.add(...) except Exception: print(...)
TryAdd(st, batch, ok) ==
    LET r == CollectionAdd(st, batch, ok)
    IN  [store |-> r.store, raised |-> FALSE, written |-> ~r.raised]

----------------------------------------------------------------------------
(* ingest_document *)

\* "".join(c if c.isalnum() else "_" for c in document_title)
SaneTitle(title) == [j \in 1..Len(title) |-> IF IsAlnum(title[j]) THEN title[j] ELSE "_"]

\* f"{sane_title}_chunk_{chunk_sequence_id}"
ChunkId(title, chunk_sequence_id) ==
    SaneTitle(title) \o <<"_", "c", "h", "u", "n", "k", "_">> \o Dec(chunk_sequence_id)

EmptyBatch == [embeddings |-> <<>>, documents |-> <<>>, metadatas |-> <<>>, ids |-> <<>>]

\* EmbedChunk numbering the chunks by their position among the embedded ones
EmbedChunkRenumbered(batch, i, chunk, file_name, title, ctype, key, api) ==
    LET chunk_sequence_id == Len(batch.ids) + 1
        embedding_vector == get_openai_embedding(chunk, key, api).ret
        metadata == [source_file_name |-> file_name, document_title |-> title,
                     content_type |-> ctype, chunk_sequence_id |-> chunk_sequence_id,
                     original_text_preview |-> PySlice(chunk, 0, PreviewLen) \o <<".", ".", ".">>]
    IN  IF embedding_vector.is_none THEN batch
        ELSE [embeddings |-> Append(batch.embeddings, embedding_vector.val),
              documents  |-> Append(batch.documents, chunk),
              metadatas  |-> Append(batch.metadatas, metadata),
              ids        |-> Append(batch.ids, ChunkId(title, chunk_sequence_id))]

\* body of the for loop for chunk i (0-based), appending to the four lists
EmbedChunk(batch, i, chunk, file_name, title, ctype, key, api) ==
    LET chunk_sequence_id == i + 1
        embedding_vector == get_openai_embedding(chunk, key, api).ret
        metadata == [source_file_name |-> file_name, document_title |-> title,
                     content_type |-> ctype, chunk_sequence_id |-> chunk_sequence_id,
                     original_text_preview |-> PySlice(chunk, 0, PreviewLen) \o <<".", ".", ".">>]
    IN  IF embedding_vector.is_none THEN batch
        ELSE [embeddings |-> Append(batch.embeddings, embedding_vector.val),
              documents  |-> Append(batch.documents, chunk),
              metadatas  |-> Append(batch.metadatas, metadata),
              ids        |-> Append(batch.ids, ChunkId(title, chunk_sequence_id))]

\* EmbedLoop that stops at the first chunk whose embedding fails
RECURSIVE EmbedLoopAbort(_, _, _, _, _, _, _, _)
EmbedLoopAbort(batch, i, cs, file_name, title, ctype, key, apis) ==
    IF i >= Len(cs) THEN batch
    ELSE IF get_openai_embedding(cs[i + 1], key, apis[i + 1]).ret.is_none THEN batch
    ELSE EmbedLoopAbort(EmbedChunk(batch, i, cs[i + 1], file_name, title, ctype, key, apis[i + 1]),
                        i + 1, cs, file_name, title, ctype, key, apis)

\* the for loop over enumerate(chunks), chunks i..len-1 still to do
RECURSIVE EmbedLoop(_, _, _, _, _, _, _, _)
EmbedLoop(batch, i, cs, file_name, title, ctype, key, apis) ==
    IF i >= Len(cs) THEN batch
    ELSE EmbedLoop(EmbedChunk(batch, i, cs[i + 1], file_name, title, ctype, key, apis[i + 1]),
                   i + 1, cs, file_name, title, ctype, key, apis)

\* result of a call that returns before the embedding loop
EarlyReturn(st, path_taken, cs) ==
    [store |-> st, raised |-> FALSE, ret |-> None, path_taken |-> path_taken,
     chunks |-> cs, embedded |-> <<>>, batch |-> EmptyBatch, add_calls |-> <<>>,
     written |-> FALSE]

\* ingest_document(file_path, document_title, content_type) run against store st;
\* load, apis and add_ok are what the file system, the provider and the store do
ingest_document(st, coll, key, file_path, title, ctype, load, apis, add_ok) ==
    IF ~coll THEN EarlyReturn(st, "no_collection", <<>>)
    ELSE
    LET file_extension == Lower(file_path.ext)
        file_name == <<file_path.stem, file_path.ext>>
    IN  IF ~(file_extension \in {".txt", ".yaml", ".docx"})
        THEN EarlyReturn(st, "unsupported", <<>>)
        ELSE
        LET loaded == IF file_extension = ".txt" \/ file_extension = ".yaml"
                      THEN load_text_file(load) ELSE load_docx_file(load)
            text_content == loaded.ret
        IN  IF text_content.is_none \/ text_content.val = <<>>
            THEN EarlyReturn(st, "no_text", <<>>)
            ELSE
            LET cs == chunk_text(text_content.val, DefaultChunkSize, DefaultChunkOverlap).chunks
            IN  IF cs = <<>> THEN EarlyReturn(st, "no_chunks", <<>>)
                ELSE
                LET batch == EmbedLoop(EmptyBatch, 0, cs, file_name, title, ctype, key, apis)
                    embedded == [i \in 1..Len(cs) |->
                                    ~get_openai_embedding(cs[i], key, apis[i]).ret.is_none]
                IN  IF batch.documents # <<>>
                    THEN LET w == TryAdd(st, batch, add_ok)
                         IN  [store |-> w.store, raised |-> w.raised, ret |-> None,
                              path_taken |-> "add", chunks |-> cs, embedded |-> embedded,
                              batch |-> batch, add_calls |-> <<batch>>,
                              written |-> w.written]
                    ELSE [store |-> st, raised |-> FALSE, ret |-> None,
                          path_taken |-> "no_embeddings", chunks |-> cs, embedded |-> embedded,
                          batch |-> batch, add_calls |-> <<>>, written |-> FALSE]

----------------------------------------------------------------------------
(* State machine of the ingestion pipeline *)

NoCall == [op |-> "none"]

\* the module initialisation when the persistent client is created: the
\* fallback client is never asked for
BootPersistent(coll) ==
    /\ client = "persistent"
    /\ imported = TRUE
    /\ boot = [persistent_client |-> "ok", memory_client |-> "unused",
               get_or_create_collection |-> IF coll THEN "ok" ELSE "Exception"]

\* chunk_text and run_ingestion not called
ChunkIdle ==
    /\ text = <<>> /\ chunk_size = DefaultChunkSize /\ chunk_overlap = DefaultChunkOverlap
    /\ chunks = <<>> /\ iterations = 0 /\ chunk_raised = FALSE /\ chunk_pc = "idle"

BatchIdle ==
    /\ batch_pc = "idle" /\ ingested_count = 0 /\ failed_count = 0 /\ processed = <<>>

\* no chat front end started
ChatIdle == session = [handler |-> "none", running |-> FALSE]

\* module initialisation: the collection handle may be None, the key may be unset
Init ==
    /\ collection \in BOOLEAN
    /\ api_key \in BOOLEAN
    /\ store = << >>
    /\ call = NoCall
    /\ ncalls = 0
    /\ text = <<>> /\ chunk_size = DefaultChunkSize /\ chunk_overlap = DefaultChunkOverlap
    /\ chunks = <<>> /\ iterations = 0 /\ chunk_raised = FALSE /\ chunk_pc = "idle"
    /\ BootPersistent(collection) /\ clock = 0 /\ BatchIdle /\ ChatIdle

\* one call of ingest_document on one of docs, the file read doing one of loads
IngestDocumentOn(docs, loads) ==
    /\ imported
    /\ ncalls < MaxCalls
    /\ \E doc \in docs, load \in loads, add_ok \in BOOLEAN :
       \E apis \in [1..Len(chunk_text(load.text, DefaultChunkSize, DefaultChunkOverlap).chunks)
                        -> ApiOutcomes] :
          LET file_path == doc.file_path
              title == doc.title
              ctype == doc.content_type
              r == ingest_document(store, collection, api_key, file_path, title, ctype,
                                   load, apis, add_ok)
          IN  /\ store' = r.store
              /\ call' = [op |-> "ingest_document", file_path |-> file_path,
                          document_title |-> title, content_type |-> ctype,
                          load |-> load, raised |-> r.raised, ret |-> r.ret,
                          path_taken |-> r.path_taken, chunks |-> r.chunks,
                          embedded |-> r.embedded, batch |-> r.batch,
                          add_calls |-> r.add_calls, written |-> r.written]
              /\ ncalls' = ncalls + 1
    /\ UNCHANGED <<collection, api_key>>
    /\ UNCHANGED chunkVars
    /\ UNCHANGED <<bootVars, clock, batchVars>> /\ UNCHANGED chatVars

\* one call of ingest_document
IngestDocument == IngestDocumentOn(Documents, LoadOutcomes)

Next == IngestDocument

Spec == Init /\ [][Next]_vars

----------------------------------------------------------------------------
(* chunk_text called on its own *)

TextAlphabet == {"x", "y", " "}

RECURSIVE SeqsUpTo(_, _)
SeqsUpTo(S, n) ==
    IF n = 0 THEN { <<>> }
    ELSE LET shorter == SeqsUpTo(S, n - 1)
         IN  shorter \cup { Append(q, c) : q \in { r \in shorter : Len(r) = n - 1 }, c \in S }

Texts == SeqsUpTo(TextAlphabet, MaxTextLen)

InitChunk ==
    /\ collection = TRUE /\ api_key = TRUE /\ store = << >> /\ call = NoCall /\ ncalls = 0
    /\ text = <<>> /\ chunk_size = DefaultChunkSize /\ chunk_overlap = DefaultChunkOverlap
    /\ chunks = <<>> /\ iterations = 0 /\ chunk_raised = FALSE /\ chunk_pc = "idle"
    /\ BootPersistent(collection) /\ clock = 0 /\ BatchIdle /\ ChatIdle

\* one call chunk_text(t, size, overlap)
CallChunkText ==
    /\ chunk_pc = "idle"
    /\ \E t \in Texts, size \in 1..MaxChunkSize, overlap \in 0..MaxChunkOverlap :
          LET r == chunk_text(t, size, overlap)
          IN  /\ text' = t /\ chunk_size' = size /\ chunk_overlap' = overlap
              /\ chunks' = r.chunks
              /\ iterations' = r.iterations
              /\ chunk_raised' = r.raised
              /\ chunk_pc' = "returned"
    /\ UNCHANGED storeVars
    /\ UNCHANGED <<bootVars, clock, batchVars>> /\ UNCHANGED chatVars

NextChunk == CallChunkText

SpecChunk == InitChunk /\ [][NextChunk]_vars

----------------------------------------------------------------------------
(* Properties of chunk_text, checked under SpecChunk *)

Returned == chunk_pc = "returned"
ValidParams == chunk_size > chunk_overlap /\ chunk_overlap >= 0

\* text.strip() == ""
IsBlank(t) == \A i \in 1..Len(t) : t[i] \in WhitespaceChars

\* the first chunk followed by every later chunk without its first `overlap` characters
RECURSIVE JoinWithoutOverlap(_, _, _)
JoinWithoutOverlap(cs, overlap, i) ==
    IF i > Len(cs) THEN <<>>
    ELSE (IF i = 1 THEN cs[i] ELSE SubSeq(cs[i], overlap + 1, Len(cs[i])))
         \o JoinWithoutOverlap(cs, overlap, i + 1)

\* offset in the text at which chunk i ends
ChunkEnd(i) == (i - 1) * (chunk_size - chunk_overlap) + Len(chunks[i])

CeilDiv(a, b) == (a + b - 1) \div b

\* C7: with chunk_size <= chunk_overlap and a non-empty text, chunk_text raises a
\* configuration error, runs zero loop iterations and produces no chunk.
C7_FailFast ==
    (Returned /\ chunk_size <= chunk_overlap /\ text # <<>>)
        => (chunk_raised /\ iterations = 0 /\ chunks = <<>>)

\* C8: for size > overlap >= 0 the chunks cover the text exactly: joined with the
\* overlaps removed they give back the text, every chunk is non-empty, later
\* chunks are longer than the overlap, and only the last chunk ends at the end
\* of the text.
C8_ChunksCoverText ==
    (Returned /\ ValidParams) =>
        /\ JoinWithoutOverlap(chunks, chunk_overlap, 1) = text
        /\ \A i \in 1..Len(chunks) : chunks[i] # <<>>
        /\ \A i \in 2..Len(chunks) : Len(chunks[i]) > chunk_overlap
        /\ \A i \in 1..Len(chunks) : (ChunkEnd(i) = Len(text)) <=> (i = Len(chunks))

C8_Witness ==
    Returned /\ ValidParams /\ chunk_overlap >= 1 /\ Len(chunks) >= 3
        /\ Len(chunks[Len(chunks)]) < chunk_size

\* the chunk count formula of the specification
ExpectedCount ==
    IF Len(text) > chunk_overlap
    THEN CeilDiv(Len(text) - chunk_overlap, chunk_size - chunk_overlap)
    ELSE 1

\* C9 (as stated): for every text and size > overlap >= 0 the number of chunks is
\* ceil((len - overlap) / (size - overlap)) when len > overlap, and 1 otherwise.
C9_CountOriginal ==
    (Returned /\ ValidParams) => Len(chunks) = ExpectedCount

\* C9 (amended): the count formula holds for every non-empty text; the empty
\* text gives zero chunks.
C9_CountNonEmpty ==
    (Returned /\ ValidParams) =>
        Len(chunks) = (IF text = <<>> THEN 0 ELSE ExpectedCount)

C9_Witness ==
    Returned /\ ValidParams /\ Len(text) > chunk_overlap /\ chunk_overlap >= 1
        /\ Len(chunks) = 2 /\ ExpectedCount = 2

\* C10: chunk_text returns the empty sequence for empty and for blank
\* (whitespace-only) text, whatever the size and overlap.
C10_EmptyOrBlank ==
    (Returned /\ IsBlank(text)) => chunks = <<>>

----------------------------------------------------------------------------
(* Properties of ingest_document, checked under Spec *)

\* this step is a call of ingest_document
IngestStep == ncalls' = ncalls + 1 /\ call'.op = "ingest_document"

Ingested == call.op = "ingest_document"

SupportedExt(file_path) == Lower(file_path.ext) \in {".txt", ".yaml", ".docx"}

\* the file cannot be read, its text is empty, its extension is unsupported,
\* or no chunks are produced
NothingToIngest(c) ==
    \/ ~SupportedExt(c.file_path)
    \/ c.load.kind # "ok"
    \/ c.load.text = <<>>
    \/ c.chunks = <<>>

\* the elements of q whose flag is set, in order
RECURSIVE SelectSeq2(_, _, _)
SelectSeq2(q, flags, i) ==
    IF i > Len(q) THEN <<>>
    ELSE (IF flags[i] THEN <<q[i]>> ELSE <<>>) \o SelectSeq2(q, flags, i + 1)

\* 1-based positions of the chunks whose embedding succeeded, in order
EmbeddedPositions(c) == SelectSeq2([i \in 1..Len(c.chunks) |-> i], c.embedded, 1)

\* the id the specification prescribes for chunk number pos of a document
IsPrescribedId(id, title, pos) ==
    /\ Len(id) = Len(title) + 7 + Len(Dec(pos))
    /\ \A j \in 1..Len(title) : id[j] = (IF title[j] \in AlnumChars THEN title[j] ELSE "_")
    /\ SubSeq(id, Len(title) + 1, Len(title) + 7) = <<"_", "c", "h", "u", "n", "k", "_">>
    /\ SubSeq(id, Len(title) + 8, Len(id)) = Dec(pos)

\* C1: ingest_document never raises to its caller, and when the file cannot be
\* read, the text is empty, the extension is unsupported or no chunks are
\* produced, the store is exactly what it was before the call.
C1_NeverRaises ==
    [][IngestStep => /\ call'.raised = FALSE
                     /\ NothingToIngest(call') => store' = store]_vars

C1_Witness ==
    /\ Ingested /\ ~call.raised
    /\ SupportedExt(call.file_path) /\ call.load.kind = "Exception"
    /\ store # << >>

\* C2: exactly the chunks whose embedding succeeded are passed to the store
\* write, in document order; when the provider fails for every chunk no write
\* is made and the store gains no record.
C2_OnlyFailedChunksSkipped ==
    [][(IngestStep /\ call'.chunks # <<>>) =>
          LET c == call'
              ok == SelectSeq2(c.chunks, c.embedded, 1)
          IN  /\ Len(c.embedded) = Len(c.chunks)
              /\ IF ok # <<>>
                 THEN /\ Len(c.add_calls) = 1
                      /\ c.add_calls[1].documents = ok
                 ELSE /\ c.add_calls = <<>>
                      /\ store' = store]_vars

C2_Witness ==
    /\ Ingested /\ call.written
    /\ Len(call.chunks) = 3
    /\ call.embedded = <<TRUE, FALSE, TRUE>>
    /\ call.add_calls[1].documents = <<call.chunks[1], call.chunks[3]>>

\* the four lists of a write are equally long and entry i of each belongs to
\* the same chunk
AlignedBatch(c, b) ==
    LET pos == EmbeddedPositions(c)
    IN  /\ Len(b.documents) = Len(pos)
        /\ Len(b.embeddings) = Len(pos)
        /\ Len(b.metadatas) = Len(pos)
        /\ Len(b.ids) = Len(pos)
        /\ \A i \in 1..Len(pos) :
              /\ b.documents[i] = c.chunks[pos[i]]
              /\ b.embeddings[i] = Vector(c.chunks[pos[i]])
              /\ b.metadatas[i].chunk_sequence_id = pos[i]
              /\ b.metadatas[i].document_title = c.document_title
              /\ IsPrescribedId(b.ids[i], c.document_title, pos[i])

\* C3: a call makes at most one write, carrying all embedded chunks in four
\* aligned lists; afterwards either every one of those chunks is in the store
\* under its id, or (the write failed) the store is unchanged; the call does
\* not raise.
C3_SingleAtomicWrite ==
    [][IngestStep =>
          LET c == call'
          IN  /\ Len(c.add_calls) <= 1
              /\ ~c.raised
              /\ \A k \in 1..Len(c.add_calls) :
                    LET b == c.add_calls[k]
                    IN  /\ AlignedBatch(c, b)
                        /\ \/ \A i \in 1..Len(b.ids) :
                                 /\ b.ids[i] \in DOMAIN store'
                                 /\ store'[b.ids[i]].document = b.documents[i]
                           \/ /\ ~c.written
                              /\ store' = store]_vars

\* C4: every id written is the sanitised title, "_chunk_" and the 1-based
\* original position of the chunk, also when earlier chunks were skipped; the
\* ids of one call are pairwise distinct.
C4_IdScheme ==
    Ingested =>
        \A k \in 1..Len(call.add_calls) :
            LET b == call.add_calls[k]
                pos == EmbeddedPositions(call)
            IN  /\ Len(b.ids) = Len(pos)
                /\ \A i \in 1..Len(b.ids) :
                      IsPrescribedId(b.ids[i], call.document_title, pos[i])
                /\ \A i, j \in 1..Len(b.ids) : (b.ids[i] = b.ids[j]) => (i = j)

C4_Witness ==
    /\ Ingested /\ call.written
    /\ call.embedded = <<FALSE, TRUE>>
    /\ call.document_title = <<"a", " ", "b">>
    /\ call.add_calls[1].ids = << <<"a", "_", "b", "_", "c", "h", "u", "n", "k", "_", "2">> >>

AllEmbeddedAndWritten(c) ==
    /\ c.op = "ingest_document"
    /\ c.written
    /\ \A i \in 1..Len(c.embedded) : c.embedded[i]

\* records whose metadata carries the title
RecordsOf(st, title) == { id \in DOMAIN st : st[id].metadata.document_title = title }

\* C5: ingesting the same document twice with the same title, embedding and
\* write succeeding both times, gives the same ids on both runs, the second run
\* overwrites the records of the first, and the number of records of the title
\* is the same after the second run as after the first.
C5_ReingestOverwrites ==
    [][(/\ IngestStep
        /\ AllEmbeddedAndWritten(call) /\ AllEmbeddedAndWritten(call')
        /\ call'.file_path = call.file_path
        /\ call'.document_title = call.document_title
        /\ call'.load = call.load) =>
          LET b == call'.add_calls[1]
          IN  /\ b.ids = call.add_calls[1].ids
              /\ \A i \in 1..Len(b.ids) :
                    store'[b.ids[i]] = [embedding |-> b.embeddings[i],
                                        document  |-> b.documents[i],
                                        metadata  |-> b.metadatas[i]]
              /\ Cardinality(RecordsOf(store', call.document_title))
                    = Cardinality(RecordsOf(store, call.document_title))]_vars

\* C6: ingest_document returns the number of records it wrote: the number of
\* embedded chunks when the write succeeded, zero on every soft-failure path.
C6_ReturnsCount ==
    Ingested =>
        call.ret = Some(IF call.written THEN Len(call.batch.documents) ELSE 0)

----------------------------------------------------------------------------
(* retrieve_relevant_chunks *)

\* distance the store computes between two vectors (opaque metric, >= 0)
Distance(q, v) ==
    IF Len(q[2]) >= Len(v[2]) THEN Len(q[2]) - Len(v[2]) ELSE Len(v[2]) - Len(q[2])

\* where=filters: None matches everything, otherwise metadata equality
Matches(metadata, where) ==
    where.is_none \/ \A k \in DOMAIN where.val : metadata[k] = where.val[k]

\* the ids of S by ascending distance to q
RECURSIVE NearestFirst(_, _, _)
NearestFirst(st, q, S) ==
    IF S = {} THEN <<>>
    ELSE LET id == CHOOSE a \in S : \A b \in S :
                       Distance(q, st[a].embedding) <= Distance(q, st[b].embedding)
         IN  <<id>> \o NearestFirst(st, q, S \ {id})

\* collection.query(query_embeddings=[q], n_results=n, where=where, include=[...]):
\* the n nearest matching records, one result list per query embedding
CollectionQuery(st, q, n, where, ok) ==
    IF ~ok THEN [raised |-> TRUE, results |-> None]
    ELSE LET matching == { id \in DOMAIN st : Matches(st[id].metadata, where) }
             ranked == NearestFirst(st, q, matching)
             top == SubSeq(ranked, 1, Min(n, Len(ranked)))
         IN  [raised |-> FALSE,
              results |-> Some([ids       |-> << top >>,
                                documents |-> << [i \in 1..Len(top) |-> st[top[i]].document] >>,
                                metadatas |-> << [i \in 1..Len(top) |-> st[top[i]].metadata] >>,
                                distances |-> << [i \in 1..Len(top) |->
                                                    Distance(q, st[top[i]].embedding)] >>])]

\* TryQuery without the try/except
TryQueryPropagates(st, q, n, where, ok) ==
    LET r == CollectionQuery(st, q, n, where, ok)
    IN  [raised |-> r.raised, failed |-> r.raised, results |-> r.results]

\* try: results = collection.query(...) except Exception: return []
TryQuery(st, q, n, where, ok) ==
    LET r == CollectionQuery(st, q, n, where, ok)
    IN  [raised |-> FALSE, failed |-> r.raised, results |-> r.results]

\* one entry of formatted_results
FormatResult(res, i) ==
    LET distance == IF res.distances # <<>> /\ res.distances[1] # <<>>
                    THEN Some(res.distances[1][i]) ELSE None
    IN  [id |-> res.ids[1][i],
         text_chunk |-> IF res.documents # <<>> /\ res.documents[1] # <<>>
                        THEN res.documents[1][i] ELSE <<"N", "/", "A">>,
         metadata |-> IF res.metadatas # <<>> /\ res.metadatas[1] # <<>>
                      THEN res.metadatas[1][i] ELSE << >>,
         similarity_score |-> IF distance.is_none THEN None ELSE Some(1 - distance.val)]

\* FormatResults listing the results last to first
FormatResultsReversed(res) ==
    IF res.ids # <<>> /\ Len(res.ids[1]) > 0
    THEN [i \in 1..Len(res.ids[1]) |-> FormatResult(res, Len(res.ids[1]) + 1 - i)]
    ELSE <<>>

\* the loop building formatted_results from the raw query results
FormatResults(res) ==
    IF res.ids # <<>> /\ Len(res.ids[1]) > 0
    THEN [i \in 1..Len(res.ids[1]) |-> FormatResult(res, i)]
    ELSE <<>>

\* RetrieveGuard without the test of the query text
RetrieveGuardNoQueryTest(coll, query_text) == ~coll

\* if not collection or not query_text: return []
RetrieveGuard(coll, query_text) == ~coll \/ query_text = <<>>

\* retrieve_relevant_chunks(query_text, filters, n_results) against store st;
\* api and query_ok are what the provider and the store do
retrieve_relevant_chunks(st, coll, key, query_text, filters, n_results, api, query_ok) ==
    IF RetrieveGuard(coll, query_text)
    THEN [ret |-> <<>>, raised |-> FALSE, embed_calls |-> <<>>, query_calls |-> <<>>,
          results |-> None]
    ELSE
    LET query_embedding == get_openai_embedding(query_text, key, api).ret
    IN  IF query_embedding.is_none
        THEN [ret |-> <<>>, raised |-> FALSE, embed_calls |-> <<query_text>>,
              query_calls |-> <<>>, results |-> None]
        ELSE
        LET q == TryQuery(st, query_embedding.val, n_results, filters, query_ok)
            made == << [query_embedding |-> query_embedding.val, n_results |-> n_results,
                        where |-> filters] >>
        IN  IF q.failed
            THEN [ret |-> <<>>, raised |-> q.raised, embed_calls |-> <<query_text>>,
                  query_calls |-> made, results |-> None]
            ELSE [ret |-> FormatResults(q.results.val), raised |-> FALSE,
                  embed_calls |-> <<query_text>>, query_calls |-> made,
                  results |-> q.results]

----------------------------------------------------------------------------
(* State machine of retrieval *)

\* the store after ingesting doc with content t, every embedding and the write succeeding
IngestedStore(st, doc, t) ==
    ingest_document(st, TRUE, TRUE, doc.file_path, doc.title, doc.content_type,
                    [kind |-> "ok", text |-> t],
                    [i \in 1..Len(chunk_text(t, DefaultChunkSize, DefaultChunkOverlap).chunks)
                        |-> "ok"],
                    TRUE).store

NotesDoc == [file_path |-> NotesTxt, title |-> <<"a", " ", "b">>, content_type |-> "UserAnalysis"]
PaperDoc == [file_path |-> PaperDocx, title |-> <<"7", "-">>, content_type |-> "ReferenceMaterial"]

\* stores left by earlier ingestion runs
PopulatedStores ==
    { IngestedStore(IngestedStore(<< >>, NotesDoc, a), PaperDoc, b) : a, b \in DocTexts }

QueryTexts == { <<>>, <<"x">>, <<"x", "x", "x">> }
Filters == { None, Some([content_type |-> "UserAnalysis"]) }

InitRetrieve ==
    /\ collection \in BOOLEAN
    /\ api_key \in BOOLEAN
    /\ store \in PopulatedStores
    /\ call = NoCall
    /\ ncalls = 0
    /\ ChunkIdle /\ BootPersistent(collection) /\ clock = 0 /\ BatchIdle /\ ChatIdle

\* one call of retrieve_relevant_chunks, at most limit calls in a behaviour
RetrieveUpTo(limit) ==
    /\ imported
    /\ ncalls < limit
    /\ \E query_text \in QueryTexts, filters \in Filters, n_results \in 1..MaxResults,
          api \in ApiOutcomes, query_ok \in BOOLEAN :
          LET r == retrieve_relevant_chunks(store, collection, api_key, query_text, filters,
                                            n_results, api, query_ok)
          IN  call' = [op |-> "retrieve_relevant_chunks", query_text |-> query_text,
                       filters |-> filters, n_results |-> n_results,
                       api |-> api, query_ok |-> query_ok,
                       raised |-> r.raised, ret |-> r.ret,
                       embed_calls |-> r.embed_calls, query_calls |-> r.query_calls,
                       results |-> r.results]
    /\ ncalls' = ncalls + 1
    /\ UNCHANGED <<collection, api_key, store>>
    /\ UNCHANGED <<chunkVars, bootVars, clock, batchVars>> /\ UNCHANGED chatVars

\* the single call of a retrieval run
Retrieve == RetrieveUpTo(1)

NextRetrieve == Retrieve

SpecRetrieve == InitRetrieve /\ [][NextRetrieve]_vars

----------------------------------------------------------------------------
(* Properties of retrieve_relevant_chunks, checked under SpecRetrieve *)

Retrieved == call.op = "retrieve_relevant_chunks"

\* C11: with an empty query string retrieve_relevant_chunks returns the empty
\* sequence and calls neither the embedding provider nor the vector store.
C11_EmptyQuery ==
    (Retrieved /\ call.query_text = <<>>) =>
        /\ call.ret = <<>>
        /\ call.embed_calls = <<>>
        /\ call.query_calls = <<>>

C11_Witness ==
    /\ Retrieved /\ call.query_text = <<>> /\ call.ret = <<>>
    /\ collection /\ api_key /\ call.api = "ok" /\ call.query_ok
    /\ store # << >>

\* the provider or the store failed during the call
RetrievalFailed(c) == ~api_key \/ c.api = "Exception" \/ ~c.query_ok

\* C12: retrieve_relevant_chunks never raises, calls the embedding provider at
\* most once, and returns the empty sequence when the embedding or the store
\* query fails.
C12_RetrieveNeverRaises ==
    Retrieved =>
        /\ ~call.raised
        /\ Len(call.embed_calls) <= 1
        /\ RetrievalFailed(call) => call.ret = <<>>

C12_Witness ==
    /\ Retrieved /\ ~call.raised /\ call.ret = <<>>
    /\ collection /\ api_key /\ call.api = "ok" /\ ~call.query_ok
    /\ Len(call.embed_calls) = 1 /\ Len(call.query_calls) = 1
    /\ store # << >>

\* the stored records the filter of the call lets through
MatchingRecords(c) == { id \in DOMAIN store : Matches(store[id].metadata, c.filters) }

\* C13: with n_results = k a call whose embedding and query succeed returns
\* min(k, number of matching records) context records, in the order of the
\* store's result, each with similarity_score = 1 - distance; the store orders
\* by ascending distance, so the scores are non-increasing.
C13_TopKInStoreOrder ==
    (Retrieved /\ collection /\ call.query_text # <<>> /\ ~RetrievalFailed(call)) =>
        LET res == call.results.val
            ret == call.ret
        IN  /\ Len(ret) = Min(call.n_results, Cardinality(MatchingRecords(call)))
            /\ Len(ret) = Len(res.ids[1])
            /\ \A i \in 1..Len(ret) :
                  /\ ret[i].id = res.ids[1][i]
                  /\ ret[i].id \in MatchingRecords(call)
                  /\ ret[i].text_chunk = store[ret[i].id].document
                  /\ ret[i].metadata = store[ret[i].id].metadata
                  /\ ret[i].similarity_score = Some(1 - res.distances[1][i])
            /\ \A i, j \in 1..Len(ret) : (ret[i].id = ret[j].id) => (i = j)
            /\ \A i \in 1..(Len(ret) - 1) :
                  ret[i].similarity_score.val >= ret[i + 1].similarity_score.val

C13_Witness ==
    /\ Retrieved /\ call.n_results = 3
    /\ Cardinality(MatchingRecords(call)) = 5
    /\ Len(call.ret) = 3
    /\ call.ret[1].similarity_score.val > call.ret[3].similarity_score.val

----------------------------------------------------------------------------
(* ingest_interaction_text *)

\* %H, %M, %S: two decimal digits
TwoDigits(n) == <<DigitChar(n \div 10), DigitChar(n % 10)>>

\* the date of the session, as %Y-%m-%d and as %Y%m%d
DateDashed == <<"2", "0", "2", "6", "-", "1", "1", "-", "0", "2">>
DateCompact == <<"2", "0", "2", "6", "1", "1", "0", "2">>

\* datetime.datetime.now().strftime("%Y-%m-%d %H:%M:%S") when the clock shows t
FormatTimestamp(t) ==
    DateDashed \o <<" ">> \o TwoDigits((t \div 3600) % 24) \o <<":">>
        \o TwoDigits((t \div 60) % 60) \o <<":">> \o TwoDigits(t % 60)

\* datetime.datetime.now().strftime('%Y%m%d_%H%M%S') when the clock shows t
FormatTitleTime(t) ==
    DateCompact \o <<"_">> \o TwoDigits((t \div 3600) % 24)
        \o TwoDigits((t \div 60) % 60) \o TwoDigits(t % 60)

\* f"Interaction at {timestamp}:\nUser: {user_input}\nAletheia: {ai_response}"
InteractionText(timestamp, user_input, ai_response) ==
    <<"I", "n", "t", "e", "r", "a", "c", "t", "i", "o", "n", " ", "a", "t", " ">> \o timestamp
        \o <<":", "\n", "U", "s", "e", "r", ":", " ">> \o user_input
        \o <<"\n", "A", "l", "e", "t", "h", "e", "i", "a", ":", " ">> \o ai_response

\* f"Interaction_{...}"
InteractionTitle(t) == <<"I", "n", "t", "e", "r", "a", "c", "t", "i", "o", "n", "_">> \o FormatTitleTime(t)

\* InteractionMetadata numbering the single chunk from zero
InteractionMetadataZeroBased(doc_title, timestamp) ==
    [source_file_name |-> <<"LiveSession">>, document_title |-> doc_title,
     content_type |-> "LiveInteraction", chunk_sequence_id |-> 0,
     timestamp |-> timestamp]

\* the metadata dict of an interaction record
InteractionMetadata(doc_title, timestamp) ==
    [source_file_name |-> <<"LiveSession">>, document_title |-> doc_title,
     content_type |-> "LiveInteraction", chunk_sequence_id |-> 1,
     timestamp |-> timestamp]

\* f"{doc_title}_chunk_1"
InteractionId(doc_title) == doc_title \o <<"_", "c", "h", "u", "n", "k", "_", "1">>

\* ingest_interaction_text(user_input, ai_response) against store st; t1 and t2
\* are what the clock shows at the first and at the second datetime.now()
ingest_interaction_text(st, coll, key, user_input, ai_response, t1, t2, api, add_ok) ==
    LET timestamp == FormatTimestamp(t1)
        interaction_text == InteractionText(timestamp, user_input, ai_response)
        doc_title == InteractionTitle(t2)
        embedding_vector == get_openai_embedding(interaction_text, key, api).ret
        metadata == InteractionMetadata(doc_title, timestamp)
        unique_id == InteractionId(doc_title)
    IN  IF ~coll
        THEN [store |-> st, raised |-> FALSE, ret |-> None, embed_calls |-> <<>>,
              add_calls |-> <<>>, written |-> FALSE]
        ELSE IF embedding_vector.is_none
        THEN [store |-> st, raised |-> FALSE, ret |-> None,
              embed_calls |-> <<interaction_text>>, add_calls |-> <<>>, written |-> FALSE]
        ELSE LET batch == [embeddings |-> <<embedding_vector.val>>,
                           documents  |-> <<interaction_text>>,
                           metadatas  |-> <<metadata>>,
                           ids        |-> <<unique_id>>]
                 w == TryAdd(st, batch, add_ok)
             IN  [store |-> w.store, raised |-> w.raised, ret |-> None,
                  embed_calls |-> <<interaction_text>>, add_calls |-> <<batch>>,
                  written |-> w.written]

----------------------------------------------------------------------------
(* State machine of interaction logging *)

UserInputs == { <<"h", "i">>, <<"y", "o">> }
Responses == { <<"h", "e", "l", "l", "o">> }

\* clock readings at start-up: a full minute and two seconds before the next one
StartTimes == { 0, 58 }

InitInteraction ==
    /\ collection \in BOOLEAN
    /\ api_key \in BOOLEAN
    /\ store = << >>
    /\ call = NoCall
    /\ ncalls = 0
    /\ clock \in StartTimes
    /\ ChunkIdle /\ BootPersistent(collection) /\ BatchIdle /\ ChatIdle

\* one call of ingest_interaction_text; the clock may tick between the two
\* datetime.now() calls and while the provider and the store work
IngestInteraction ==
    /\ imported
    /\ ncalls < MaxCalls
    /\ \E user_input \in UserInputs, ai_response \in Responses,
          tick1 \in 0..1, tick2 \in 0..1, api \in ApiOutcomes, add_ok \in BOOLEAN :
          LET t1 == clock
              t2 == clock + tick1
              r == ingest_interaction_text(store, collection, api_key, user_input,
                                           ai_response, t1, t2, api, add_ok)
          IN  /\ store' = r.store
              /\ call' = [op |-> "ingest_interaction_text", user_input |-> user_input,
                          ai_response |-> ai_response, t1 |-> t1, t2 |-> t2,
                          api |-> api, add_ok |-> add_ok,
                          raised |-> r.raised, ret |-> r.ret,
                          embed_calls |-> r.embed_calls, add_calls |-> r.add_calls,
                          written |-> r.written]
              /\ clock' = t2 + tick2
    /\ ncalls' = ncalls + 1
    /\ UNCHANGED <<collection, api_key>>
    /\ UNCHANGED <<chunkVars, bootVars, batchVars>> /\ UNCHANGED chatVars

NextInteraction == IngestInteraction

SpecInteraction == InitInteraction /\ [][NextInteraction]_vars

----------------------------------------------------------------------------
(* Properties of ingest_interaction_text, checked under SpecInteraction *)

InteractionStep == ncalls' = ncalls + 1 /\ call'.op = "ingest_interaction_text"

Logged == call.op = "ingest_interaction_text"

\* the provider returned a vector / returned nothing for the call
EmbeddingOk(c) == api_key /\ c.api = "ok"

RECURSIVE DigitsOf(_, _)
DigitsOf(str, i) ==
    IF i > Len(str) THEN <<>>
    ELSE (IF str[i] \in {"0", "1", "2", "3", "4", "5", "6", "7", "8", "9"}
          THEN <<str[i]>> ELSE <<>>) \o DigitsOf(str, i + 1)

\* YYYYMMDDHHMMSS as written in the title, the id, the metadata timestamp and
\* the first line of the stored text of a written record
TitleSecond(b) == DigitsOf(b.metadatas[1].document_title, 1)
IdSecond(b) == SubSeq(DigitsOf(b.ids[1], 1), 1, 14)
MetadataSecond(b) == DigitsOf(b.metadatas[1].timestamp, 1)
TextSecond(b) == DigitsOf(SubSeq(b.documents[1], 16, 34), 1)

\* C19: in every record written by ingest_interaction_text the second in the
\* title and the id is the second of the metadata timestamp and of the
\* timestamp line of the text, and two interactions with different metadata
\* timestamps have different ids.
C19_TitleMatchesTimestamp ==
    [][(InteractionStep /\ call'.add_calls # <<>>) =>
          LET b == call'.add_calls[1]
          IN  /\ TitleSecond(b) = MetadataSecond(b)
              /\ IdSecond(b) = MetadataSecond(b)
              /\ TextSecond(b) = MetadataSecond(b)
              /\ (Logged /\ call.add_calls # <<>>
                    /\ call.add_calls[1].metadatas[1].timestamp # b.metadatas[1].timestamp)
                  => call.add_calls[1].ids[1] # b.ids[1]]_vars

----------------------------------------------------------------------------
(* Module initialisation of corememory_system *)

BootOutcomes == { "ok", "Exception" }

\* the two try blocks run at import: PersistentClient with chromadb.Client() as
\* the fallback inside the except handler, then get_or_create_collection with
\* collection = None in the except handler
ModuleInit(persistent, memory, coll) ==
    LET client_made == IF persistent = "ok" THEN "persistent"
                       ELSE IF memory = "ok" THEN "in_memory" ELSE "none"
    IN  IF client_made = "none"
        THEN [client |-> "none", collection |-> FALSE, imported |-> FALSE]
        ELSE [client |-> client_made, collection |-> coll = "ok", imported |-> TRUE]

\* every way the import can go
InitBoot ==
    /\ \E persistent \in BootOutcomes, memory \in BootOutcomes, coll \in BootOutcomes :
          LET m == ModuleInit(persistent, memory, coll)
          IN  /\ client = m.client
              /\ collection = m.collection
              /\ imported = m.imported
              /\ boot = [persistent_client |-> persistent,
                         memory_client |-> IF persistent = "ok" THEN "unused" ELSE memory,
                         get_or_create_collection |-> IF m.imported THEN coll ELSE "unused"]
    /\ api_key \in BOOLEAN
    /\ store = << >>
    /\ call = NoCall
    /\ ncalls = 0
    /\ clock = 0
    /\ ChunkIdle /\ BatchIdle /\ ChatIdle

\* the calls made after the import
BootIngestDocument ==
    IngestDocumentOn({NotesDoc}, { [kind |-> "Exception", text |-> <<>>],
                                   [kind |-> "ok", text |-> <<"x">>],
                                   [kind |-> "ok", text |-> <<"x", "x", "x", "x">>] })

BootRetrieve == RetrieveUpTo(MaxCalls)

NextBoot == BootIngestDocument \/ IngestInteraction \/ BootRetrieve

SpecBoot == InitBoot /\ [][NextBoot]_vars

----------------------------------------------------------------------------
(* Properties of the module initialisation, checked under SpecBoot *)

Called == call.op # "none"

\* C15 (as stated): when creating the persistent client or getting/creating the
\* collection fails, the module runs on an in-memory store instead of crashing
\* and every later call returns normally.
C15_FallbackOriginal ==
    (boot.persistent_client = "Exception" \/ boot.get_or_create_collection = "Exception") =>
        /\ imported
        /\ client = "in_memory" /\ collection
        /\ Called => ~call.raised

\* a call that did nothing: no provider call, no store call, nothing returned
NoOp(c) ==
    CASE c.op = "ingest_document" ->
            c.embedded = <<>> /\ c.add_calls = <<>> /\ ~c.written
      [] c.op = "ingest_interaction_text" ->
            c.embed_calls = <<>> /\ c.add_calls = <<>> /\ ~c.written
      [] c.op = "retrieve_relevant_chunks" ->
            c.embed_calls = <<>> /\ c.query_calls = <<>> /\ c.ret = <<>>

\* What the module does instead: a failing persistent client is replaced by an
\* in-memory client, and the import fails only if that client cannot be created either;
\* a failing get_or_create_collection leaves collection = None with no
\* replacement.  After a completed import every call returns normally, and
\* with collection = None every call is a no-op on an empty store.
DegradedNotCrashed ==
    /\ imported <=> (boot.persistent_client = "ok" \/ boot.memory_client = "ok")
    /\ (boot.persistent_client = "Exception" /\ boot.memory_client = "ok")
          => client = "in_memory"
    /\ boot.persistent_client = "ok" => client = "persistent"
    /\ imported => (collection <=> boot.get_or_create_collection = "ok")
    /\ ~imported => ~Called
    /\ Called => ~call.raised
    /\ (Called /\ ~collection) => (NoOp(call) /\ store = << >>)

DegradedCallReached ==
    /\ boot.persistent_client = "Exception" /\ client = "in_memory"
    /\ boot.get_or_create_collection = "Exception" /\ ~collection
    /\ call.op = "retrieve_relevant_chunks" /\ call.query_text # <<>>
    /\ ~call.raised /\ call.ret = <<>>
    /\ ncalls = MaxCalls

----------------------------------------------------------------------------
(* Lens selection of run_chat *)

\* str.lower() on one character and on a string
LowerChar(c) == CASE c = "A" -> "a" [] c = "B" -> "b" [] c = "L" -> "l" [] c = "Q" -> "q"
                     [] OTHER -> c
StrLower(s) == [i \in 1..Len(s) |-> LowerChar(s[i])]

\* str.startswith
StartsWith(s, prefix) ==
    Len(prefix) <= Len(s) /\ SubSeq(s, 1, Len(prefix)) = prefix

\* str.find: 0-based index of the first occurrence, -1 when there is none
Find(s, sub) ==
    LET hits == { i \in 0..(Len(s) - Len(sub)) : SubSeq(s, i + 1, i + Len(sub)) = sub }
    IN  IF hits = {} THEN -1 ELSE CHOOSE i \in hits : \A j \in hits : i <= j

\* str.lstrip(), str.rstrip() and str.strip()
RECURSIVE LStrip(_)
LStrip(s) == IF s # <<>> /\ Head(s) \in WhitespaceChars THEN LStrip(Tail(s)) ELSE s
RECURSIVE RStrip(_)
RStrip(s) == IF s # <<>> /\ s[Len(s)] \in WhitespaceChars
             THEN RStrip(SubSeq(s, 1, Len(s) - 1)) ELSE s
Strip(s) == RStrip(LStrip(s))

\* the longest prefix of s without whitespace
RECURSIVE FirstToken(_)
FirstToken(s) == IF s = <<>> \/ Head(s) \in WhitespaceChars THEN <<>>
                 ELSE <<Head(s)>> \o FirstToken(Tail(s))

\* the first two elements of str.split(maxsplit=2): with two splits allowed
\* both are whole whitespace-delimited tokens
SplitParts(s) ==
    LET s1 == LStrip(s)
        p0 == FirstToken(s1)
        s2 == LStrip(SubSeq(s1, Len(p0) + 1, Len(s1)))
        p1 == FirstToken(s2)
    IN  IF p0 = <<>> THEN <<>> ELSE IF p1 = <<>> THEN <<p0>> ELSE <<p0, p1>>

\* load_reasoning_lenses: LOADED_LENSES as the list of its items; a repeated
\* key keeps its position and takes the later lens
RECURSIVE load_reasoning_lenses(_)
load_reasoning_lenses(names) ==
    IF names = <<>> THEN <<>>
    ELSE LET before == load_reasoning_lenses(SubSeq(names, 1, Len(names) - 1))
             name   == names[Len(names)]
             item   == [key |-> StrLower(name), name |-> name]
         IN  IF \E i \in 1..Len(before) : before[i].key = item.key
             THEN [i \in 1..Len(before) |->
                      IF before[i].key = item.key THEN item ELSE before[i]]
             ELSE Append(before, item)

\* the inner loop over LOADED_LENSES.keys(): index of the first key the
\* command starts with, 0 when there is none
FirstMatch(lenses, command) ==
    LET hits == { i \in 1..Len(lenses) : StartsWith(command, lenses[i].key) }
    IN  IF hits = {} THEN 0 ELSE CHOOSE i \in hits : \A j \in hits : i <= j

LensPrefix == <<"l", "e", "n", "s", ":">>

\* the lens block of run_chat: the selected lens name and the query handed
\* to retrieval
parse_lens(user_input_full, lenses) ==
    LET unselected == [selected_lens_name |-> None, user_query |-> user_input_full]
        parts == SplitParts(user_input_full)
    IN  IF ~StartsWith(StrLower(user_input_full), LensPrefix) THEN unselected
        ELSE IF Len(parts) <= 1 \/ lenses = <<>> THEN unselected
        ELSE LET potential_lens_name_command == StrLower(parts[2])
                 m == FirstMatch(lenses, potential_lens_name_command)
             IN  IF m = 0 THEN unselected
                 ELSE LET matched_lens == lenses[m].key
                          query_start_index ==
                              Find(StrLower(user_input_full), matched_lens) + Len(matched_lens)
                      IN  [selected_lens_name |-> Some(lenses[m].name),
                           user_query |-> Strip(PySlice(user_input_full, query_start_index,
                                                        Len(user_input_full)))]

LensAlphabet == {"a", "b", "A", " "}
LensCommands == SeqsUpTo(LensAlphabet, MaxLensCommandLen)
LensHeads == { LensPrefix, <<"L", "e", "n", "s", ":">>, <<>> }

\* the names of reasoning_lenses.yaml, in file order
LensFiles == { <<>>,
               << <<"a">> >>,
               << <<"a">>, <<"a", "b">> >>,
               << <<"a", "b">>, <<"a">> >>,
               << <<"A", " ", "b">> >>,
               << <<"A", "b">>, <<"b">> >> }

InitLens ==
    /\ collection = TRUE /\ api_key = TRUE /\ store = << >>
    /\ call = NoCall /\ ncalls = 0
    /\ BootPersistent(TRUE) /\ clock = 0
    /\ ChunkIdle /\ BatchIdle /\ ChatIdle

\* one input line read by run_chat that is neither 'quit' nor blank
ParseLens ==
    /\ ncalls < 1
    /\ \E head \in LensHeads, command \in LensCommands, names \in LensFiles :
          LET user_input_full == head \o command
              r == parse_lens(user_input_full, load_reasoning_lenses(names))
          IN  /\ StrLower(user_input_full) # <<"q", "u", "i", "t">>
              /\ Strip(user_input_full) # <<>>
              /\ call' = [op |-> "parse_lens", user_input_full |-> user_input_full,
                          names |-> names,
                          selected_lens_name |-> r.selected_lens_name,
                          user_query |-> r.user_query]
    /\ ncalls' = ncalls + 1
    /\ UNCHANGED <<collection, api_key, store, clock>>
    /\ UNCHANGED chunkVars /\ UNCHANGED bootVars /\ UNCHANGED batchVars /\ UNCHANGED chatVars

NextLens == ParseLens

SpecLens == InitLens /\ [][NextLens]_vars

----------------------------------------------------------------------------
(* Properties of the lens selection, checked under SpecLens *)

\* the text following "lens:"
AfterLensPrefix(c) == LStrip(SubSeq(c.user_input_full, Len(LensPrefix) + 1, Len(c.user_input_full)))

\* the loaded names that are case-insensitive prefixes of the text following "lens:"
PrefixNames(c) ==
    { c.names[i] : i \in { j \in 1..Len(c.names) :
                              StartsWith(StrLower(AfterLensPrefix(c)), StrLower(c.names[j])) } }

\* C16: for an input beginning with "lens:" the selected lens is the longest
\* loaded lens name that is a case-insensitive prefix of the text after
\* "lens:" (multi-word names included, the longer of two nested names winning),
\* and the query is the rest of the input after that name.
C16_LongestPrefixLens ==
    (call.op = "parse_lens" /\ StartsWith(StrLower(call.user_input_full), LensPrefix)) =>
        IF PrefixNames(call) = {}
        THEN call.selected_lens_name = None
        ELSE LET longest == CHOOSE n \in PrefixNames(call) :
                                \A o \in PrefixNames(call) : Len(n) >= Len(o)
             IN  /\ call.selected_lens_name = Some(longest)
                 /\ call.user_query =
                       Strip(SubSeq(AfterLensPrefix(call), Len(longest) + 1,
                                    Len(AfterLensPrefix(call))))

----------------------------------------------------------------------------
(* Batch ingestion: run_ingestion of ingest_all.py *)

DATA_DIR == "data/"
CONFIG_DIR == "configs/"

\* entries of FILE_MAP in dictionary order: text files of data/ and YAML files
\* of configs/
FileMapItems ==
    << [filename |-> [stem |-> "Aleheia'sChat", ext |-> ".txt"],
        title |-> <<"d", "1">>, content_type |-> "AletheiaDialogue_Primary"],
       [filename |-> [stem |-> "declaration_v0_1", ext |-> ".yaml"],
        title |-> <<"c", "1">>, content_type |-> "AletheiaCoreConfig"],
       [filename |-> [stem |-> "ethicsquotes", ext |-> ".txt"],
        title |-> <<"r", "1">>, content_type |-> "ReferenceMaterial"],
       [filename |-> [stem |-> "core_principles_v0_1", ext |-> ".yaml"],
        title |-> <<"c", "2">>, content_type |-> "AletheiaCoreConfig"],
       [filename |-> [stem |-> "AletheiaSelf", ext |-> ".txt"],
        title |-> <<"u", "1">>, content_type |-> "UserAnalysis"] >>

FILE_MAP == SubSeq(FileMapItems, 1, Min(FileMapLen, Len(FileMapItems)))

\* os.path.join(base_dir, filename)
BatchFilePath(item) ==
    LET base_dir == IF item.content_type = "AletheiaCoreConfig" THEN CONFIG_DIR ELSE DATA_DIR
    IN  [dir |-> base_dir, stem |-> item.filename.stem, ext |-> item.filename.ext]

\* what reading an existing file of the batch does
BatchLoads == { [kind |-> "Exception", text |-> <<>>],
                [kind |-> "ok", text |-> <<"x">>],
                [kind |-> "ok", text |-> <<"x", "x", "x", "x">>] }

\* the loop body with the else branch leaving the counters alone
CountEntrySkipUncounted(exists, raised, ingested, failed) ==
    IF exists
    THEN IF ~raised THEN [ingested_count |-> ingested + 1, failed_count |-> failed]
                    ELSE [ingested_count |-> ingested, failed_count |-> failed + 1]
    ELSE [ingested_count |-> ingested, failed_count |-> failed]

\* the counters after one pass of the loop body: the try, its except and
\* the else of os.path.exists
CountEntry(exists, raised, ingested, failed) ==
    IF exists
    THEN IF ~raised THEN [ingested_count |-> ingested + 1, failed_count |-> failed]
                    ELSE [ingested_count |-> ingested, failed_count |-> failed + 1]
    ELSE [ingested_count |-> ingested, failed_count |-> failed + 1]

InitBatch ==
    /\ collection \in BOOLEAN
    /\ api_key \in BOOLEAN
    /\ store = << >>
    /\ call = NoCall
    /\ ncalls = 0
    /\ BootPersistent(collection) /\ clock = 0
    /\ ChunkIdle /\ BatchIdle /\ ChatIdle

\* run_ingestion is entered: counters zeroed, an empty FILE_MAP returns at once
StartBatch ==
    /\ batch_pc = "idle"
    /\ ingested_count' = 0 /\ failed_count' = 0 /\ processed' = <<>>
    /\ batch_pc' = IF FILE_MAP = <<>> THEN "done" ELSE "loop"
    /\ UNCHANGED storeVars /\ UNCHANGED chunkVars /\ UNCHANGED bootVars /\ UNCHANGED clock /\ UNCHANGED chatVars

\* one pass of the for loop over FILE_MAP.items()
ProcessEntry ==
    /\ batch_pc = "loop"
    /\ Len(processed) < Len(FILE_MAP)
    /\ LET item == FILE_MAP[Len(processed) + 1]
           file_path == BatchFilePath(item)
       IN  \E exists \in BOOLEAN, load \in BatchLoads, add_ok \in BOOLEAN :
           \E apis \in [1..Len(chunk_text(load.text, DefaultChunkSize, DefaultChunkOverlap).chunks)
                            -> ApiOutcomes] :
              LET r == ingest_document(store, collection, api_key, file_path, item.title,
                                       item.content_type, load, apis, add_ok)
                  raised == exists /\ r.raised
                  n == CountEntry(exists, raised, ingested_count, failed_count)
              IN  /\ store' = IF exists THEN r.store ELSE store
                  /\ call' = IF exists
                             THEN [op |-> "ingest_document", file_path |-> file_path,
                                   document_title |-> item.title,
                                   content_type |-> item.content_type,
                                   load |-> load, raised |-> r.raised, ret |-> r.ret,
                                   path_taken |-> r.path_taken, chunks |-> r.chunks,
                                   embedded |-> r.embedded, batch |-> r.batch,
                                   add_calls |-> r.add_calls, written |-> r.written]
                             ELSE call
                  /\ ncalls' = IF exists THEN ncalls + 1 ELSE ncalls
                  /\ ingested_count' = n.ingested_count
                  /\ failed_count' = n.failed_count
                  /\ processed' = Append(processed,
                         [filename |-> item.filename, file_path |-> file_path,
                          outcome |-> IF ~exists THEN "missing"
                                      ELSE IF raised THEN "raised" ELSE r.path_taken])
    /\ batch_pc' = "loop"
    /\ UNCHANGED <<collection, api_key>>
    /\ UNCHANGED chunkVars /\ UNCHANGED bootVars /\ UNCHANGED clock /\ UNCHANGED chatVars

\* the loop is exhausted: the summary is printed and run_ingestion returns
FinishBatch ==
    /\ batch_pc = "loop"
    /\ Len(processed) = Len(FILE_MAP)
    /\ batch_pc' = "done"
    /\ UNCHANGED <<ingested_count, failed_count, processed>>
    /\ UNCHANGED storeVars /\ UNCHANGED chunkVars /\ UNCHANGED bootVars /\ UNCHANGED clock /\ UNCHANGED chatVars

NextBatch == StartBatch \/ ProcessEntry \/ FinishBatch

\* the interpreter keeps running the loop: a step that can be taken is taken
SpecBatch == InitBatch /\ [][NextBatch]_vars /\ WF_vars(NextBatch)

----------------------------------------------------------------------------
(* Properties of the batch ingestion, checked under SpecBatch *)

\* the entries handled so far are the first entries of FILE_MAP, each once
HandledInOrder ==
    /\ Len(processed) <= Len(FILE_MAP)
    /\ \A i \in 1..Len(processed) : processed[i].filename = FILE_MAP[i].filename

\* C17: run_ingestion handles every FILE_MAP entry exactly once and in order,
\* whatever happened to the earlier entries, counts each entry exactly once,
\* and terminates with ingested_count + failed_count = number of entries.
C17_BatchHandlesEveryEntry ==
    /\ [](HandledInOrder /\ ingested_count + failed_count = Len(processed))
    /\ [](batch_pc = "done" =>
             Len(processed) = Len(FILE_MAP) /\ ingested_count + failed_count = Len(FILE_MAP))
    /\ <>(batch_pc = "done")

C17_Witness ==
    /\ batch_pc = "done"
    /\ processed[1].outcome = "missing"
    /\ processed[2].outcome = "no_text"
    /\ processed[Len(FILE_MAP)].outcome = "add"
    /\ store # << >>
    /\ failed_count = 1 /\ ingested_count = Len(FILE_MAP) - 1

----------------------------------------------------------------------------
(* Chat turns: the loop of run_chat and the chat input handler of app.py *)

\* what openai.chat.completions.create does: an exception, or a message whose
\* content is None, empty or text
LlmOutcomes == { [kind |-> "Exception", content |-> None],
                 [kind |-> "ok", content |-> None],
                 [kind |-> "ok", content |-> Some(<<>>)],
                 [kind |-> "ok", content |-> Some(<<"o", "k">>)] }

\* get_llm_completion: None without an API key or on any exception
get_llm_completion(key, llm) ==
    IF ~key THEN None
    ELSE IF llm.kind = "Exception" THEN None
    ELSE llm.content

\* `if ai_response:` taken for every response that is not None
ShouldLogNotNone(ai_response) == ~ai_response.is_none

\* `if ai_response:`
ShouldLog(ai_response) == ~ai_response.is_none /\ ai_response.val # <<>>

\* steps 1 to 5 of a turn, shared by both front ends: retrieve three chunks for
\* the query, ask for the completion, and save the interaction when there is
\* a response
chat_turn(st, coll, key, user_query, user_input_full, r_api, query_ok, llm, t1, t2, e_api, add_ok) ==
    LET context == retrieve_relevant_chunks(st, coll, key, user_query, None, 3, r_api, query_ok)
        ai_response == get_llm_completion(key, llm)
        base == [store |-> st, trace |-> <<"retrieve", "complete">>,
                 ai_response |-> ai_response, raised |-> context.raised,
                 context_chunks |-> Len(context.ret), written |-> FALSE]
    IN  IF context.raised THEN [base EXCEPT !.trace = <<"retrieve">>]
        ELSE IF ShouldLog(ai_response)
        THEN LET saved == ingest_interaction_text(st, coll, key, user_input_full,
                                                  ai_response.val, t1, t2, e_api, add_ok)
             IN  [base EXCEPT !.store = saved.store,
                              !.trace = <<"retrieve", "complete", "log">>,
                              !.raised = saved.raised,
                              !.written = saved.written]
        ELSE base

Quit == <<"q", "u", "i", "t">>

\* lines typed at the "You: " prompt
CliInputs == { Quit, <<"Q", "u", "i", "t">>, <<>>, <<" ">>, <<"h", "i">>,
               LensPrefix \o <<" ", "a", " ", "h", "i">> }

\* what st.chat_input returns on a run of the script
StreamlitPrompts == { None, Some(<<>>), Some(<<" ">>), Some(<<"h", "i">>), Some(Quit) }

\* the lenses of the session
ChatLenses == load_reasoning_lenses(<< <<"a">> >>)

InitChat ==
    /\ collection \in BOOLEAN
    /\ api_key \in BOOLEAN
    /\ store = << >>
    /\ call = NoCall
    /\ ncalls = 0
    /\ BootPersistent(collection) /\ clock = 0
    /\ ChunkIdle /\ BatchIdle
    /\ \E h \in {"cli", "streamlit"} : session = [handler |-> h, running |-> TRUE]

\* an input that starts no turn
NoTurn(handler, kind, user_input_full) ==
    [op |-> "chat_turn", handler |-> handler, kind |-> kind,
     user_input_full |-> user_input_full, user_query |-> <<>>, trace |-> <<>>,
     ai_response |-> None, raised |-> FALSE, context_chunks |-> 0, written |-> FALSE]

\* a processed input
Turn(handler, user_input_full, user_query, r) ==
    [op |-> "chat_turn", handler |-> handler, kind |-> "turn",
     user_input_full |-> user_input_full, user_query |-> user_query, trace |-> r.trace,
     ai_response |-> r.ai_response, raised |-> r.raised,
     context_chunks |-> r.context_chunks, written |-> r.written]

\* one pass of the while loop of run_chat
RunChatTurn ==
    /\ session.handler = "cli" /\ session.running
    /\ ncalls < MaxCalls
    /\ ncalls' = ncalls + 1
    /\ \E user_input_full \in CliInputs :
          IF StrLower(user_input_full) = Quit
          THEN /\ session' = [session EXCEPT !.running = FALSE]
               /\ call' = NoTurn("cli", "quit", user_input_full)
               /\ UNCHANGED <<store, clock>>
          ELSE IF Strip(user_input_full) = <<>>
          THEN /\ call' = NoTurn("cli", "blank", user_input_full)
               /\ UNCHANGED <<store, clock, session>>
          ELSE \E r_api \in ApiOutcomes, query_ok \in BOOLEAN, llm \in LlmOutcomes,
                  tick1 \in 0..1, tick2 \in 0..1, e_api \in ApiOutcomes, add_ok \in BOOLEAN :
               \E user_query \in { parse_lens(user_input_full, ChatLenses).user_query } :
               \E r \in { chat_turn(store, collection, api_key, user_query, user_input_full,
                                    r_api, query_ok, llm, clock, clock + tick1, e_api, add_ok) } :
                   /\ store' = r.store
                   /\ call' = Turn("cli", user_input_full, user_query, r)
                   /\ clock' = IF \E i \in 1..Len(r.trace) : r.trace[i] = "log" THEN clock + tick1 + tick2 ELSE clock
                   /\ UNCHANGED session
    /\ UNCHANGED <<collection, api_key>>
    /\ UNCHANGED chunkVars /\ UNCHANGED bootVars /\ UNCHANGED batchVars

\* one run of the app.py script
StreamlitRun ==
    /\ session.handler = "streamlit" /\ session.running
    /\ ncalls < MaxCalls
    /\ ncalls' = ncalls + 1
    /\ \E prompt \in StreamlitPrompts :
          IF prompt.is_none \/ prompt.val = <<>>
          THEN /\ call' = NoTurn("streamlit", "no_prompt", prompt.val)
               /\ UNCHANGED <<store, clock>>
          ELSE \E r_api \in ApiOutcomes, query_ok \in BOOLEAN, llm \in LlmOutcomes,
                  tick1 \in 0..1, tick2 \in 0..1, e_api \in ApiOutcomes, add_ok \in BOOLEAN :
               \E r \in { chat_turn(store, collection, api_key, prompt.val, prompt.val,
                                    r_api, query_ok, llm, clock, clock + tick1, e_api, add_ok) } :
                   /\ store' = r.store
                   /\ call' = Turn("streamlit", prompt.val, prompt.val, r)
                   /\ clock' = IF \E i \in 1..Len(r.trace) : r.trace[i] = "log" THEN clock + tick1 + tick2 ELSE clock
    /\ UNCHANGED <<collection, api_key, session>>
    /\ UNCHANGED chunkVars /\ UNCHANGED bootVars /\ UNCHANGED batchVars

NextChat == RunChatTurn \/ StreamlitRun

SpecChat == InitChat /\ [][NextChat]_vars

----------------------------------------------------------------------------
(* Properties of the chat turns, checked under SpecChat *)

\* 1-based position of a step in a trace, 0 when it did not happen
StepAt(trace, step) ==
    IF \E i \in 1..Len(trace) : trace[i] = step
    THEN CHOOSE i \in 1..Len(trace) : trace[i] = step
    ELSE 0

StepCount(trace, step) == Cardinality({ i \in 1..Len(trace) : trace[i] = step })

\* the completion call returned a non-empty response
NonEmptyResponse(c) == ~c.ai_response.is_none /\ c.ai_response.val # <<>>

\* the 'quit' command and the blank line of run_chat
QuitCommand(c) == c.handler = "cli" /\ StrLower(c.user_input_full) = Quit
BlankInput(c) == c.handler = "cli" /\ Strip(c.user_input_full) = <<>>

====
